---- MODULE Spec2Model ----
(***************************************************************************)
(* Model of the row-oriented DataFrame of                                  *)
(* libs/berkelium/src/lib/modules/dataframe.ts (class DataFrame, lines     *)
(* 62-926).                                                                *)
(*                                                                         *)
(* A DataFrame holds `data`, an array of references to row objects, and    *)
(* `colDataTypes`, the dtype table computed by the constructor.  Row       *)
(* objects live in `heap`, so that two frames holding the same reference   *)
(* see each other's writes, exactly as the JavaScript objects do.          *)
(*                                                                         *)
(* A row is an insertion-ordered list of entries (key, value).  The source *)
(* reads and writes the entries of a row through row.get / row.set /       *)
(* row.delete as well as through row[col], `col in row`, Object.keys and   *)
(* Object.entries; all of them are modelled as accesses to the one entry   *)
(* list of the row.                                                        *)
(*                                                                         *)
(* A cell value is a pair <<kind, payload>>; kind is what `typeof` yields. *)
(***************************************************************************)
EXTENDS Integers, Sequences, FiniteSets, TLC

\* ------------------------------------------------------------------ bounds
\* Largest number of rows of a constructed DataFrame.
MaxRows == 3
\* Largest number of method calls in one behaviour.
MaxSteps == 2
\* Largest number of rows of a frame whose statistics are computed.
MaxCells == 4

\* ------------------------------------------------------------------ values
Undef == <<"undefined", 0>>
Num(i) == <<"number", i>>
Str(i) == <<"string", i>>
Bool(b) == <<"boolean", b>>

typeof(v) == v[1]

\* Column names are strings.
ColA == Str(1)
ColB == Str(2)
ColC == Str(3)
\* A text cell.
Txt == Str(7)

\* value ?? other
Nullish(v, other) == IF v = Undef THEN other ELSE v

\* !value
Falsy(v) == v \in {Undef, Num(0), Bool(0), Str(0)}

\* ------------------------------------------------------------------ rows
KeyPos(row, k) ==
  IF \E i \in 1..Len(row) : row[i].k = k
  THEN CHOOSE i \in 1..Len(row) : row[i].k = k
  ELSE 0

\* col in row / row.has(col)
Has(row, k) == KeyPos(row, k) # 0

\* row.get(col) / row[col]
Get(row, k) == IF Has(row, k) THEN row[KeyPos(row, k)].v ELSE Undef

\* row.set(col, value) / row[col] = value
Set(row, k, v) ==
  IF Has(row, k)
  THEN [row EXCEPT ![KeyPos(row, k)] = [k |-> k, v |-> v]]
  ELSE Append(row, [k |-> k, v |-> v])

\* row.delete(col)
Remove(row, k) == SelectSeq(row, LAMBDA e : e.k # k)

\* Object.keys(row)
Keys(row) == [i \in 1..Len(row) |-> row[i].k]

\* Object.fromEntries(entries): a repeated key keeps its first position and
\* takes its last value.
RECURSIVE FromEntries(_, _)
FromEntries(entries, acc) ==
  IF entries = <<>> THEN acc
  ELSE FromEntries(Tail(entries), Set(acc, Head(entries).k, Head(entries).v))

\* ------------------------------------------------------------------ arrays
Min(a, b) == IF a < b THEN a ELSE b
Max(a, b) == IF a > b THEN a ELSE b

\* Array.prototype.slice(start, end): a negative bound counts from the end,
\* both bounds are clamped to the array.
SliceFrom(len, start) == IF start < 0 THEN Max(len + start, 0) ELSE Min(start, len)

Slice(arr, start, end) ==
  LET from == SliceFrom(Len(arr), start)
      to == SliceFrom(Len(arr), end)
  IN  IF to <= from THEN <<>> ELSE SubSeq(arr, from + 1, to)

\* Array.prototype.filter: keep[i] is what the callback returns for element i;
\* the kept elements stay in order.
RECURSIVE FilterIdx(_, _, _)
FilterIdx(arr, keep, i) ==
  IF i > Len(arr) THEN <<>>
  ELSE (IF keep[i] THEN <<arr[i]>> ELSE <<>>) \o FilterIdx(arr, keep, i + 1)

Range(s) == {s[i] : i \in 1..Len(s)}

\* ------------------------------------------------------------------ heap
HeapSize == 3 * MaxRows
RowIds == 1..HeapSize
EmptyRow == <<>>

\* The n-th smallest row identity that is not in use.
NthFree(used, n) ==
  CHOOSE i \in RowIds \ used : Cardinality({j \in RowIds \ used : j < i}) = n - 1

\* New row objects holding `rows`, in order: the heap with them and their ids.
Alloc(h, used, rows) ==
  LET ids == [i \in 1..Len(rows) |-> NthFree(used, i)]
  IN  [h |-> [r \in RowIds |->
                IF \E i \in 1..Len(rows) : ids[i] = r
                THEN rows[CHOOSE i \in 1..Len(rows) : ids[i] = r]
                ELSE h[r]],
       ids |-> ids]

\* ------------------------------------------------------------------ getters
\* get columns()
columns(h, data) == IF Len(data) > 0 THEN Keys(h[data[1]]) ELSE <<>>

\* index() with one label too few.
index_short(data) == [i \in 1..(Len(data) - 1) |-> i - 1]

\* index() with labels counted from one.
index_oneBased(data) == [i \in 1..Len(data) |-> i]

\* get index()
index(data) == [i \in 1..Len(data) |-> i - 1]

\* get shape()
shape(h, data) == <<Len(data), Len(columns(h, data))>>

\* array(col)
array(h, data, col) == [i \in 1..Len(data) |-> Get(h[data[i]], col)]

\* The dtype the source has when no cell of the column is defined (the
\* JavaScript value undefined, which is no typeof result).
NoType == "none"

\* mostFrequentType(arr)[0]: the first kind to reach the greatest count.
Kinds == {"number", "string", "boolean", "object"}

RECURSIVE mostFrequentTypeLoop(_, _, _, _, _)
mostFrequentTypeLoop(arr, i, frequencyMap, maxCount, best) ==
  IF i > Len(arr) THEN best
  ELSE LET value == typeof(arr[i])
       IN  IF value = "undefined"
           THEN mostFrequentTypeLoop(arr, i + 1, frequencyMap, maxCount, best)
           ELSE LET count == frequencyMap[value] + 1
                    freq2 == [frequencyMap EXCEPT ![value] = count]
                IN  IF count > maxCount
                    THEN mostFrequentTypeLoop(arr, i + 1, freq2, count, value)
                    ELSE mostFrequentTypeLoop(arr, i + 1, freq2, maxCount, best)

\* The kinds of the defined cells of an array, how many cells hold each, and
\* the kinds held by the most cells.
PresentKinds(arr) == {typeof(arr[i]) : i \in 1..Len(arr)} \ {"undefined"}
KindCount(arr, k) == Cardinality({i \in 1..Len(arr) : typeof(arr[i]) = k})
MaxKindCount(arr) ==
  CHOOSE c \in 0..Len(arr) :
    /\ \A k \in PresentKinds(arr) : KindCount(arr, k) <= c
    /\ (PresentKinds(arr) = {} /\ c = 0) \/ (\E k \in PresentKinds(arr) : KindCount(arr, k) = c)
TiedKinds(arr) == {k \in PresentKinds(arr) : KindCount(arr, k) = MaxKindCount(arr)}
\* The position of the n-th cell of kind k.
NthCell(arr, k, n) ==
  CHOOSE i \in 1..Len(arr) :
    typeof(arr[i]) = k /\ Cardinality({j \in 1..i : typeof(arr[j]) = k}) = n
\* Of the kinds held by the most cells, the one seen first, and the one that
\* is the first to have that many cells.
FirstSeen(arr) ==
  CHOOSE k \in TiedKinds(arr) :
    \A k2 \in TiedKinds(arr) : NthCell(arr, k, 1) <= NthCell(arr, k2, 1)
FirstToReach(arr) ==
  CHOOSE k \in TiedKinds(arr) :
    \A k2 \in TiedKinds(arr) :
      NthCell(arr, k, MaxKindCount(arr)) <= NthCell(arr, k2, MaxKindCount(arr))

\* mostFrequentType(arr)[0] that breaks a tie by the kind seen first.
mostFrequentType_firstSeen(arr) ==
  IF PresentKinds(arr) = {} THEN NoType ELSE FirstSeen(arr)

mostFrequentType(arr) ==
  mostFrequentTypeLoop(arr, 1, [k \in Kinds |-> 0], 0, NoType)

\* getDataTypes(): the dtype table, one entry per column in column order.
getDataTypes(h, data) ==
  LET cols == columns(h, data)
  IN  [i \in 1..Len(cols) |->
        [k |-> cols[i], v |-> mostFrequentType(array(h, data, cols[i]))]]

\* constructor(data)
DataFrame(h, data) == [data |-> data, colDataTypes |-> getDataTypes(h, data)]

\* What a caller can observe of a frame's content: columns, shape and cells.
View(h, f) ==
  [columns |-> columns(h, f.data),
   shape |-> shape(h, f.data),
   cells |-> [i \in 1..Len(columns(h, f.data)) |->
               array(h, f.data, columns(h, f.data)[i])]]

\* The rows of a frame as values, in order.
Rows(h, f) == [i \in 1..Len(f.data) |-> h[f.data[i]]]

\* ------------------------------------------------------------------ methods
\* A method that returns a DataFrame yields [h |-> the heap after the call,
\* f |-> the returned frame]; a void method yields the heap and the receiver.

\* head(n) with an inclusive end.
head_inclusive(h, f, n) == [h |-> h, f |-> DataFrame(h, Slice(f.data, 0, n + 1))]

\* head(n)
head(h, f, n) == [h |-> h, f |-> DataFrame(h, Slice(f.data, 0, n))]

\* tail(n): slice(-n) has one argument, so its end is the array's length.
tail(h, f, n) == [h |-> h, f |-> DataFrame(h, Slice(f.data, 0 - n, Len(f.data)))]

\* JSON.parse(JSON.stringify(row)): an entry whose value is undefined is left
\* out; numbers, strings and booleans come back as they were.
JSONRoundTrip(row) == SelectSeq(row, LAMBDA e : e.v # Undef)

\* copy() that hands the source's row objects to the new frame.
copy_shared(h, used, f) == [h |-> h, f |-> DataFrame(h, f.data)]

\* copy()
copy(h, used, f) ==
  LET a == Alloc(h, used, [i \in 1..Len(f.data) |-> JSONRoundTrip(h[f.data[i]])])
  IN  [h |-> a.h, f |-> DataFrame(a.h, a.ids)]

\* The predicates a caller passes to filter: (row, position) -> boolean.
Predicates == {"aIsNumber", "bDefined", "notFirst"}

predicate(p, row, pos) ==
  CASE p = "aIsNumber" -> typeof(Get(row, ColA)) = "number"
    [] p = "bDefined" -> Get(row, ColB) # Undef
    [] p = "notFirst" -> pos # 0

\* filter(predicate)
filter(h, f, p) ==
  [h |-> h,
   f |-> DataFrame(h, FilterIdx(f.data,
                                [i \in 1..Len(f.data) |-> predicate(p, h[f.data[i]], i - 1)],
                                1))]

\* dropna()
dropna(h, f) ==
  LET cols == columns(h, f.data)
      filteredData ==
        FilterIdx(f.data,
                  [i \in 1..Len(f.data) |->
                     \A c \in 1..Len(cols) : Get(h[f.data[i]], cols[c]) # Undef],
                  1)
  IN  [h |-> h, f |-> DataFrame(h, filteredData)]

\* Array.prototype.indexOf on an array of row references: zero-based, -1 if absent.
indexOf(arr, x) ==
  IF \E i \in 1..Len(arr) : arr[i] = x
  THEN (CHOOSE i \in 1..Len(arr) : arr[i] = x /\ \A j \in 1..(i - 1) : arr[j] # x) - 1
  ELSE 0 - 1

\* hasDuplicates(): rows are compared by their JSON text, which holds the
\* entries whose value is defined, in order.
hasDuplicates(h, data) ==
  Len(data) # Cardinality({JSONRoundTrip(h[data[i]]) : i \in 1..Len(data)})

\* dedup(): rows are compared by reference.
dedup(h, f) ==
  [h |-> h,
   f |-> DataFrame(h, FilterIdx(f.data,
                                [i \in 1..Len(f.data) |-> indexOf(f.data, f.data[i]) = i - 1],
                                1))]

\* row.forEach((key) => row.set(key, row.get(key) ?? value)): forEach hands the
\* callback the entry's value first, and also visits the entries added meanwhile.
RECURSIVE fillnaForEach(_, _, _)
fillnaForEach(row, i, value) ==
  IF i > Len(row) THEN row
  ELSE LET key == row[i].v
       IN  fillnaForEach(Set(row, key, Nullish(Get(row, key), value)), i + 1, value)

\* The body of fillna's map callback; column = Undef when the argument is omitted.
fillnaRow(row, value, column) ==
  IF ~Falsy(column)
  THEN Set(row, column, Nullish(Get(row, column), value))
  ELSE fillnaForEach(row, 1, value)

\* this.data.map(callback) in fillna: the callback writes into the row it is
\* handed and returns it; the rows are visited in order.
RECURSIVE fillnaMap(_, _, _, _, _)
fillnaMap(h, data, value, column, i) ==
  IF i > Len(data) THEN h
  ELSE fillnaMap([h EXCEPT ![data[i]] = fillnaRow(@, value, column)],
                 data, value, column, i + 1)

\* fillna(value, column?): writes into the receiver's row objects.
fillna(h, f, value, column) ==
  LET h2 == fillnaMap(h, f.data, value, column, 1)
  IN  [h |-> h2, f |-> DataFrame(h2, f.data)]

\* select(columnNames): a new row object per row, with the named keys it has.
RECURSIVE selectRow(_, _, _)
selectRow(row, columnNames, acc) ==
  IF columnNames = <<>> THEN acc
  ELSE selectRow(row, Tail(columnNames),
                 IF Has(row, Head(columnNames))
                 THEN Set(acc, Head(columnNames), Get(row, Head(columnNames)))
                 ELSE acc)

select(h, used, f, columnNames) ==
  LET a == Alloc(h, used,
                 [i \in 1..Len(f.data) |-> selectRow(h[f.data[i]], columnNames, <<>>)])
  IN  [h |-> a.h, f |-> DataFrame(a.h, a.ids)]

\* dataArray.shift() called once per row, in row order: row i takes element i,
\* or undefined once the array is used up.
Shifted(dataArray, i) == IF i <= Len(dataArray) THEN dataArray[i] ELSE Undef

\* this.data.map(callback) in insert: row[column] = dataArray.shift().
RECURSIVE insertMap(_, _, _, _, _)
insertMap(h, data, column, dataArray, i) ==
  IF i > Len(data) THEN h
  ELSE insertMap([h EXCEPT ![data[i]] = Set(@, column, Shifted(dataArray, i))],
                 data, column, dataArray, i + 1)

\* insert(column, dataArray): writes into the receiver's row objects and
\* consumes dataArray.
insert(h, f, column, dataArray) ==
  LET h2 == insertMap(h, f.data, column, dataArray, 1)
  IN  [h |-> h2, f |-> DataFrame(h2, f.data),
       dataArray |-> Slice(dataArray, Len(f.data), Len(dataArray))]

\* this.data.map(callback) in update: row[column] = dataArray.shift().
RECURSIVE updateMap(_, _, _, _, _)
updateMap(h, data, column, dataArray, i) ==
  IF i > Len(data) THEN h
  ELSE updateMap([h EXCEPT ![data[i]] = Set(@, column, Shifted(dataArray, i))],
                 data, column, dataArray, i + 1)

\* update(column, dataArray): the same body as insert.
update(h, f, column, dataArray) ==
  LET h2 == updateMap(h, f.data, column, dataArray, 1)
  IN  [h |-> h2, f |-> DataFrame(h2, f.data),
       dataArray |-> Slice(dataArray, Len(f.data), Len(dataArray))]

\* this.data.map(callback) in delete: row.delete(column).
RECURSIVE deleteMap(_, _, _, _)
deleteMap(h, data, column, i) ==
  IF i > Len(data) THEN h
  ELSE deleteMap([h EXCEPT ![data[i]] = Remove(@, column)], data, column, i + 1)

\* delete(column): removes the key from the receiver's row objects.
delete(h, f, column) ==
  LET h2 == deleteMap(h, f.data, column, 1)
  IN  [h |-> h2, f |-> DataFrame(h2, f.data)]

\* The functions a caller passes to transform.
Functions == {"double", "toText"}

fn(name, v) ==
  CASE name = "double" -> IF typeof(v) = "number" THEN Num(2 * v[2]) ELSE v
    [] name = "toText" -> Txt

\* this.data.map(callback) in transform: a row whose cell is falsy is
\* returned as it is, any other row has fn applied to its cell.
RECURSIVE transformMap(_, _, _, _, _)
transformMap(h, data, column, name, i) ==
  IF i > Len(data) THEN h
  ELSE transformMap(
         [h EXCEPT ![data[i]] =
            IF Falsy(Get(@, column)) THEN @ ELSE Set(@, column, fn(name, Get(@, column)))],
         data, column, name, i + 1)

\* transform(column, fn) that applies fn to every cell of the column.
transform_all(h, f, column, name) ==
  LET h2 == [r \in RowIds |->
               IF r \in Range(f.data)
               THEN Set(h[r], column, fn(name, Get(h[r], column))) ELSE h[r]]
  IN  [h |-> h2, f |-> DataFrame(h2, f.data)]

\* transform(column, fn), for a column of the frame: writes into the
\* receiver's row objects.
transform(h, f, column, name) ==
  LET h2 == transformMap(h, f.data, column, name, 1)
  IN  [h |-> h2, f |-> DataFrame(h2, f.data)]

\* updateElement(index, column, value), for an index inside the data.
updateElement(h, f, idx, column, value) ==
  [h |-> [h EXCEPT ![f.data[idx + 1]] = Set(@, column, value)], f |-> f]

\* deleteObservations(indices) that counts the rows from 1.
deleteObservations_oneBased(h, f, indices) ==
  [h |-> h,
   f |-> [f EXCEPT !.data =
            FilterIdx(f.data, [i \in 1..Len(f.data) |-> i \notin indices], 1)]]

\* deleteObservations(indices): the indices are positions in the data.
deleteObservations(h, f, indices) ==
  [h |-> h,
   f |-> [f EXCEPT !.data =
            FilterIdx(f.data, [i \in 1..Len(f.data) |-> (i - 1) \notin indices], 1)]]

\* renameColumn(oldName, newName): every row becomes a new object.
renameRow(row, oldName, newName) ==
  FromEntries([i \in 1..Len(row) |->
                 IF row[i].k = oldName THEN [k |-> newName, v |-> row[i].v] ELSE row[i]],
              <<>>)

renameColumn(h, used, f, oldName, newName) ==
  LET a == Alloc(h, used,
                 [i \in 1..Len(f.data) |-> renameRow(h[f.data[i]], oldName, newName)])
  IN  [h |-> a.h, f |-> [f EXCEPT !.data = a.ids]]

\* --------------------------------------------------------------- numbers
\* A JavaScript number that a statistic computes is a fraction <<n, d>> in
\* lowest terms with d > 0, or NaN, Infinity or -Infinity.  Arithmetic is
\* exact: the rounding of the floating-point operations is not modelled.
NaN == <<0, 0>>
Infinity == <<1, 0>>
NegInfinity == <<0 - 1, 0>>

Abs(n) == IF n < 0 THEN 0 - n ELSE n
Sign(n) == IF n < 0 THEN 0 - 1 ELSE IF n > 0 THEN 1 ELSE 0

RECURSIVE GCD(_, _)
GCD(a, b) == IF b = 0 THEN a ELSE GCD(b, a % b)

Frac(n, d) ==
  IF d = 0 THEN <<Sign(n), 0>>
  ELSE LET g == GCD(Abs(n), Abs(d))
       IN  <<(Sign(d) * n) \div g, Abs(d) \div g>>

IsFinite(x) == x[2] # 0

\* x + y, x - y, x * y, x / y.  Infinity is only ever the result of min or
\* max, never an operand, so a non-finite operand stands for NaN.
Plus(x, y) ==
  IF IsFinite(x) /\ IsFinite(y) THEN Frac(x[1] * y[2] + y[1] * x[2], x[2] * y[2]) ELSE NaN
Minus(x, y) ==
  IF IsFinite(x) /\ IsFinite(y) THEN Frac(x[1] * y[2] - y[1] * x[2], x[2] * y[2]) ELSE NaN
Times(x, y) ==
  IF IsFinite(x) /\ IsFinite(y) THEN Frac(x[1] * y[1], x[2] * y[2]) ELSE NaN
Divide(x, y) ==
  IF IsFinite(x) /\ IsFinite(y) THEN Frac(x[1] * y[2], x[2] * y[1]) ELSE NaN

\* a < b, also for Infinity and -Infinity; false when one of them is NaN.
Less(a, b) == a # NaN /\ b # NaN /\ a[1] * b[2] < b[1] * a[2]

\* The number an operand of - is converted to.
ToNumber(v) ==
  CASE typeof(v) = "number" -> <<v[2], 1>>
    [] typeof(v) = "boolean" -> <<v[2], 1>>
    [] v = Str(0) -> <<0, 1>>
    [] OTHER -> NaN

\* Math.sqrt(x), kept as the root of x.
Sqrt(x) == <<"sqrt", x>>
Squared(root) == root[2]

\* ------------------------------------------------------------ statistics
\* .map(row => row[column]).filter(v => typeof v === 'number')
values(h, data, column) ==
  LET cells == SelectSeq(array(h, data, column), LAMBDA v : typeof(v) = "number")
  IN  [i \in 1..Len(cells) |-> ToNumber(cells[i])]

RECURSIVE Sum(_, _)
Sum(vals, i) == IF i > Len(vals) THEN <<0, 1>> ELSE Plus(vals[i], Sum(vals, i + 1))

\* vals.reduce((acc, val) => acc + (val - mean) ** 2, 0)
RECURSIVE SumSquares(_, _, _)
SumSquares(vals, mean, i) ==
  IF i > Len(vals) THEN <<0, 1>>
  ELSE Plus(Times(Minus(vals[i], mean), Minus(vals[i], mean)), SumSquares(vals, mean, i + 1))

\* Math.min(...vals) and Math.max(...vals)
RECURSIVE MathMin(_, _, _)
MathMin(vals, i, acc) ==
  IF i > Len(vals) THEN acc
  ELSE MathMin(vals, i + 1, IF Less(vals[i], acc) THEN vals[i] ELSE acc)

RECURSIVE MathMax(_, _, _)
MathMax(vals, i, acc) ==
  IF i > Len(vals) THEN acc
  ELSE MathMax(vals, i + 1, IF Less(acc, vals[i]) THEN vals[i] ELSE acc)

min(h, data, column) == MathMin(values(h, data, column), 1, Infinity)
max(h, data, column) == MathMax(values(h, data, column), 1, NegInfinity)

\* vals.sort((a, b) => a - b)
RECURSIVE InsertSorted(_, _, _)
InsertSorted(sorted, x, i) ==
  IF i > Len(sorted) THEN Append(sorted, x)
  ELSE IF Less(x, sorted[i])
       THEN SubSeq(sorted, 1, i - 1) \o <<x>> \o SubSeq(sorted, i, Len(sorted))
       ELSE InsertSorted(sorted, x, i + 1)

RECURSIVE sort(_, _, _)
sort(vals, i, sorted) ==
  IF i > Len(vals) THEN sorted ELSE sort(vals, i + 1, InsertSorted(sorted, vals[i], 1))

\* vals[i] for a zero-based i; outside the array it is undefined, which is
\* NaN as an operand.
At(vals, i) == IF i >= 0 /\ i < Len(vals) THEN vals[i + 1] ELSE NaN

\* getPercentile(p, values)
getPercentile(p, vals) ==
  LET idx == Times(p, <<Len(vals) - 1, 1>>)
      lower == idx[1] \div idx[2]
      upper == 0 - ((0 - idx[1]) \div idx[2])
  IN  Plus(At(vals, lower),
           Times(Minus(At(vals, upper), At(vals, lower)), Minus(idx, <<lower, 1>>)))

\* quartiles(column) without the sort.
quartiles_unsorted(h, data, column) ==
  LET vals == values(h, data, column)
  IN  [q25 |-> getPercentile(<<1, 4>>, vals),
       q50 |-> getPercentile(<<1, 2>>, vals),
       q75 |-> getPercentile(<<3, 4>>, vals)]

\* quartiles(column)
quartiles(h, data, column) ==
  LET vals == sort(values(h, data, column), 1, <<>>)
  IN  [q25 |-> getPercentile(<<1, 4>>, vals),
       q50 |-> getPercentile(<<1, 2>>, vals),
       q75 |-> getPercentile(<<3, 4>>, vals)]

\* median(column)
median(h, data, column) == quartiles(h, data, column).q50

\* mean(column)
mean(h, data, column) ==
  LET vals == values(h, data, column)
  IN  Divide(Sum(vals, 1), <<Len(vals), 1>>)

\* std(column) with the divisor of the variance.
std_sample(h, data, column) ==
  LET vals == values(h, data, column)
  IN  Sqrt(Divide(SumSquares(vals, mean(h, data, column), 1), <<Len(vals) - 1, 1>>))

\* std(column)
std(h, data, column) ==
  LET vals == values(h, data, column)
  IN  Sqrt(Divide(SumSquares(vals, mean(h, data, column), 1), <<Len(vals), 1>>))

\* calculateVariance(column): every cell of the column is an operand.
calculateVariance(h, data, column) ==
  LET cells == array(h, data, column)
      numericColumn == [i \in 1..Len(cells) |-> ToNumber(cells[i])]
  IN  Divide(SumSquares(numericColumn, mean(h, data, column), 1),
             <<Len(numericColumn) - 1, 1>>)

\* var(): one entry per column that has a number in some row.
var(h, data) ==
  LET numericalColumns ==
        SelectSeq(columns(h, data),
                  LAMBDA col : \E i \in 1..Len(data) : typeof(Get(h[data[i]], col)) = "number")
  IN  [i \in 1..Len(numericalColumns) |->
        [column |-> numericalColumns[i],
         variance |-> calculateVariance(h, data, numericalColumns[i])]]

\* isNotEmpty(value); there is no null, NaN or object among the cell values.
isNotEmpty(value) == value \notin {Undef, Bool(0), Str(0)}

\* count(column)
count(h, data, column) == Len(SelectSeq(array(h, data, column), isNotEmpty))

\* dTypes: no entry when the frame has no rows.
dTypes(f) == IF Len(f.data) = 0 THEN <<>> ELSE f.colDataTypes

\* values.reduce(...) in calculateMode: the number of occurrences of each value.
RECURSIVE frequencies(_, _, _)
frequencies(vals, i, acc) ==
  IF i > Len(vals) THEN acc
  ELSE frequencies(vals, i + 1,
                   Set(acc, vals[i], (IF Has(acc, vals[i]) THEN Get(acc, vals[i]) ELSE 0) + 1))

\* Object.values(m) and Object.keys(m) of a Map m built with new Map(): a Map
\* keeps its entries in an internal slot and has no own enumerable property.
ObjectValues(m) == <<>>
ObjectKeys(m) == <<>>

\* calculateMode(values)
calculateMode(vals) ==
  LET frequencyMap == frequencies(vals, 1, <<>>)
      counts == ObjectValues(frequencyMap)
      maxFrequency == MathMax([i \in 1..Len(counts) |-> <<counts[i], 1>>], 1, NegInfinity)
      modes == SelectSeq(ObjectKeys(frequencyMap),
                         LAMBDA key : /\ Has(frequencyMap, key)
                                      /\ <<Get(frequencyMap, key), 1>> = maxFrequency)
  IN  IF Len(modes) = Len(ObjectKeys(frequencyMap)) THEN <<>> ELSE modes

\* Math.max(...modes) of cell values that are numbers.
RECURSIVE MaxOf(_, _)
MaxOf(modes, i) ==
  IF i = Len(modes) THEN modes[i]
  ELSE LET rest == MaxOf(modes, i + 1)
       IN  IF modes[i][2] > rest[2] THEN modes[i] ELSE rest

\* mode(column): [err |-> the error thrown or "none", value |-> what is returned]
mode(h, f, column) ==
  IF ~(Has(dTypes(f), column) /\ Get(dTypes(f), column) = "number")
  THEN [err |-> "Error", value |-> Undef]
  ELSE LET modes == calculateMode(array(h, f.data, column))
       IN  [err |-> "none",
            value |-> IF Len(modes) = 0 THEN Undef
                      ELSE IF Len(modes) = 1 THEN modes[1]
                      ELSE MaxOf(modes, 1)]

\* ------------------------------------------------------------ diagnostics
\* The key getWrongTypeRows writes into a row.
ColIndex == Str(9)

\* this.dTypes.get(column); NoType when the table has no entry.
dTypeOf(f, column) == IF Has(dTypes(f), column) THEN Get(dTypes(f), column) ELSE NoType

\* this.data.map(callback) in getWrongTypeRows: a row whose cell is not of the
\* column's dtype gets the key "index" and is returned.
RECURSIVE getWrongTypeRowsMap(_, _, _, _, _)
getWrongTypeRowsMap(h, f, column, i, acc) ==
  IF i > Len(f.data) THEN acc
  ELSE IF typeof(Get(acc.h[f.data[i]], column)) # dTypeOf(f, column)
       THEN getWrongTypeRowsMap(h, f, column, i + 1,
              [h |-> [acc.h EXCEPT ![f.data[i]] = Set(@, ColIndex, Num(i - 1))],
               rows |-> Append(acc.rows, f.data[i])])
       ELSE getWrongTypeRowsMap(h, f, column, i + 1, acc)

\* getWrongTypeRows(column): [h |-> the heap after the call, rows |-> the rows returned]
getWrongTypeRows(h, f, column) == getWrongTypeRowsMap(h, f, column, 1, [h |-> h, rows |-> <<>>])

\* --------------------------------------------------------------- grouping
\* The text made of the decimal digits of i, and the texts 'undefined',
\* 'false' and 'true'.
Digits(i) == Str(10 + i)
IsDigits(v) == typeof(v) = "string" /\ v[2] >= 10
TextUndefined == Str(8)
TextBool(b) == Str(4 + b)

\* groups[key]: a value used as a property key is converted to a text.
ToPropertyKey(v) ==
  CASE typeof(v) = "number" -> Digits(v[2])
    [] typeof(v) = "boolean" -> TextBool(v[2])
    [] typeof(v) = "undefined" -> TextUndefined
    [] OTHER -> v

\* this.data.forEach(...) in groupBy: the row is pushed to the group of its key.
RECURSIVE groupByLoop(_, _, _, _, _)
groupByLoop(h, data, col, i, groups) ==
  IF i > Len(data) THEN groups
  ELSE LET key == ToPropertyKey(Get(h[data[i]], col))
           group == IF Has(groups, key) THEN Get(groups, key) ELSE <<>>
       IN  groupByLoop(h, data, col, i + 1, Set(groups, key, Append(group, data[i])))

\* Object.entries(groups): the keys that are digits come first, in ascending
\* order, then the other keys in insertion order.
RECURSIVE IntegerKeysFirst(_, _)
IntegerKeysFirst(entries, from) ==
  LET larger == {i \in 1..Len(entries) : IsDigits(entries[i].k) /\ entries[i].k[2] >= from}
  IN  IF larger = {}
      THEN SelectSeq(entries, LAMBDA e : ~IsDigits(e.k))
      ELSE LET i == CHOOSE i \in larger : \A j \in larger : entries[i].k[2] <= entries[j].k[2]
           IN  <<entries[i]>> \o IntegerKeysFirst(entries, entries[i].k[2] + 1)

\* groupBy(col): one entry per key, holding a DataFrame over the rows of the group.
groupBy(h, data, col) ==
  LET groups == IntegerKeysFirst(groupByLoop(h, data, col, 1, <<>>), 10)
  IN  [i \in 1..Len(groups) |-> [k |-> groups[i].k, v |-> DataFrame(h, groups[i].v)]]

\* [...new Set(arr)]: the distinct elements in the order of their first occurrence.
RECURSIVE SetOf(_, _, _)
SetOf(arr, i, acc) ==
  IF i > Len(arr) THEN acc
  ELSE SetOf(arr, i + 1, IF arr[i] \in Range(acc) THEN acc ELSE Append(acc, arr[i]))

\* unique(column)
unique(h, data, column) ==
  SetOf(SelectSeq(array(h, data, column), LAMBDA value : value # Undef), 1, <<>>)

\* valueCounts(column): the accumulator of the reduce is the object literal {},
\* which has no set method, so the callback throws a TypeError on the first
\* row; without rows the accumulator is returned as it is.
valueCounts(h, data, column) ==
  IF Len(data) = 0
  THEN [err |-> "none", value |-> <<>>]
  ELSE [err |-> "TypeError", value |-> Undef]

\* ------------------------------------------------------------------ state
VARIABLES
  heap,    \* row identity -> the row object's entries
  frames,  \* the two DataFrames under observation: src, and der, the frame
           \* returned by the latest call that returns one
  link,    \* the method that derived der from src ("none": no der yet)
  last,    \* the latest call: method, receiver, arguments, error
  before,  \* heap and frames as they were when the latest call was made
  steps    \* number of calls made

vars == <<heap, frames, link, last, before, steps>>

Receivers == {"src", "der"}

\* The cells a constructed frame starts with, per column.
AValues == {Undef, Num(0), Num(1)}
BValues == {Undef, Txt}
InitRow(a, b) == <<[k |-> ColA, v |-> a], [k |-> ColB, v |-> b]>>
InitRows == {InitRow(a, Txt) : a \in AValues} \cup {InitRow(Num(1), b) : b \in BValues}

\* The arguments the calls are made with.
NArgs == (0 - 1)..(MaxRows + 1)
FillColumns == {Undef, ColA}
SelectArgs == {<<ColB, ColA>>, <<ColA, ColC>>}
DataArrays == {[i \in 1..k |-> Num(i)] : k \in (MaxRows - 1)..(MaxRows + 1)}
ColumnArgs == {ColA, ColC}
TransformArgs == {<<ColA, "double">>, <<ColA, "toText">>, <<ColC, "double">>}
ElementArgs == {<<ColA, Num(1)>>, <<ColA, Undef>>, <<ColC, Txt>>}
IndexArgs == 0..MaxRows
IndexSets == {{i} : i \in IndexArgs} \cup {{0, 1}}
RenameArgs == {<<ColA, ColC>>, <<ColA, ColB>>, <<ColC, ColB>>}

NoCall ==
  [op |-> "new", recv |-> "src", n |-> 0, column |-> Undef, name |-> Undef,
   value |-> Undef, dataArray |-> <<>>, indices |-> {}, arg |-> "", err |-> "none",
   result |-> Undef]

Used(fr) == Range(fr.src.data) \cup Range(fr.der.data)

\* Row objects no frame refers to are unreachable; their slot is cleared.
Collect(h, fr) == [r \in RowIds |-> IF r \in Used(fr) THEN h[r] ELSE EmptyRow]

Init ==
  \E n \in 0..MaxRows :
    \E rows \in [1..n -> InitRows] :
      /\ heap = [r \in RowIds |-> IF r <= n THEN rows[r] ELSE EmptyRow]
      /\ frames = [src |-> DataFrame(heap, [i \in 1..n |-> i]),
                   der |-> DataFrame(heap, <<>>)]
      /\ link = "none"
      /\ last = NoCall
      /\ before = [heap |-> heap, frames |-> frames]
      /\ steps = 0

\* A call on frames[recv] that returns the frame R.f, leaving the heap R.h.
Returns(recv, call, R) ==
  /\ steps < MaxSteps
  /\ frames' = [frames EXCEPT !.der = R.f]
  /\ heap' = Collect(R.h, frames')
  /\ link' = call.op
  /\ last' = call
  /\ before' = [heap |-> heap, frames |-> frames]
  /\ steps' = steps + 1

\* A void call on frames[recv] that leaves the receiver as R.f and the heap as R.h.
Mutates(recv, call, R) ==
  /\ steps < MaxSteps
  /\ frames' = [frames EXCEPT ![recv] = R.f]
  /\ heap' = Collect(R.h, frames')
  /\ link' = link
  /\ last' = call
  /\ before' = [heap |-> heap, frames |-> frames]
  /\ steps' = steps + 1

\* A call that throws before it writes anything.
Throws(call, error) ==
  /\ steps < MaxSteps
  /\ last' = [call EXCEPT !.err = error]
  /\ before' = [heap |-> heap, frames |-> frames]
  /\ steps' = steps + 1
  /\ UNCHANGED <<heap, frames, link>>

Call(op, recv) == [NoCall EXCEPT !.op = op, !.recv = recv]

DoHead ==
  \E n \in NArgs :
    Returns("src", [Call("head", "src") EXCEPT !.n = n], head(heap, frames.src, n))

DoTail ==
  \E n \in NArgs :
    Returns("src", [Call("tail", "src") EXCEPT !.n = n], tail(heap, frames.src, n))

DoCopy ==
  Returns("src", Call("copy", "src"), copy(heap, Used(frames), frames.src))

DoFilter ==
  \E p \in Predicates :
    Returns("src", [Call("filter", "src") EXCEPT !.arg = p], filter(heap, frames.src, p))

DoDropna ==
  Returns("src", Call("dropna", "src"), dropna(heap, frames.src))

DoDedup ==
  Returns("src", Call("dedup", "src"), dedup(heap, frames.src))

DoFillna ==
  \E column \in FillColumns :
    Returns("src", [Call("fillna", "src") EXCEPT !.value = Num(0), !.column = column],
            fillna(heap, frames.src, Num(0), column))

DoSelect ==
  \E columnNames \in SelectArgs :
    Returns("src", [Call("select", "src") EXCEPT !.dataArray = columnNames],
            select(heap, Used(frames), frames.src, columnNames))

DoInsert ==
  \E dataArray \in DataArrays :
    LET R == insert(heap, frames.src, ColC, dataArray)
    IN  Returns("src",
                [Call("insert", "src") EXCEPT
                   !.column = ColC, !.dataArray = dataArray, !.result = R.dataArray],
                R)

DoUpdate ==
  \E dataArray \in DataArrays :
    LET R == update(heap, frames.src, ColA, dataArray)
    IN  Returns("src",
                [Call("update", "src") EXCEPT
                   !.column = ColA, !.dataArray = dataArray, !.result = R.dataArray],
                R)

DoDelete ==
  \E column \in ColumnArgs :
    Returns("src", [Call("delete", "src") EXCEPT !.column = column],
            delete(heap, frames.src, column))

DoTransform ==
  \E a \in TransformArgs :
    LET call == [Call("transform", "src") EXCEPT !.column = a[1], !.arg = a[2]]
    IN  IF a[1] \in Range(columns(heap, frames.src.data))
        THEN Returns("src", call, transform(heap, frames.src, a[1], a[2]))
        ELSE Throws(call, "Error")

DoUpdateElement ==
  \E recv \in Receivers, idx \in IndexArgs, a \in ElementArgs :
    LET call == [Call("updateElement", recv) EXCEPT
                   !.n = idx, !.column = a[1], !.value = a[2]]
    IN  IF idx < Len(frames[recv].data)
        THEN Mutates(recv, call, updateElement(heap, frames[recv], idx, a[1], a[2]))
        ELSE Throws(call, "TypeError")

DoDeleteObservations ==
  \E recv \in Receivers, indices \in IndexSets :
    Mutates(recv, [Call("deleteObservations", recv) EXCEPT !.indices = indices],
            deleteObservations(heap, frames[recv], indices))

DoRenameColumn ==
  \E recv \in Receivers, a \in RenameArgs :
    Mutates(recv, [Call("renameColumn", recv) EXCEPT !.column = a[1], !.name = a[2]],
            renameColumn(heap, Used(frames), frames[recv], a[1], a[2]))

\* A call that reads the receiver and returns a value that is no DataFrame.
Query(call, result) ==
  /\ steps < MaxSteps
  /\ last' = [call EXCEPT !.result = result]
  /\ before' = [heap |-> heap, frames |-> frames]
  /\ steps' = steps + 1
  /\ UNCHANGED <<heap, frames, link>>

DoGetWrongTypeRows ==
  LET R == getWrongTypeRows(heap, frames.src, ColA)
  IN  Mutates("src",
              [Call("getWrongTypeRows", "src") EXCEPT !.column = ColA, !.result = R.rows],
              [h |-> R.h, f |-> frames.src])

DoArray ==
  \E col \in ColumnArgs :
    Query([Call("array", "src") EXCEPT !.column = col], array(heap, frames.src.data, col))

Next ==
  \/ DoHead
  \/ DoTail
  \/ DoCopy
  \/ DoFilter
  \/ DoDropna
  \/ DoDedup
  \/ DoFillna
  \/ DoSelect
  \/ DoInsert
  \/ DoUpdate
  \/ DoDelete
  \/ DoTransform
  \/ DoUpdateElement
  \/ DoDeleteObservations
  \/ DoRenameColumn
  \/ DoArray
  \/ DoGetWrongTypeRows

Spec == Init /\ [][Next]_vars

\* -------------------------------------------------------- statistics calls
\* The cells of column a of a frame whose statistics are computed; column b
\* holds a text in every row.
StatValues == {Undef, Num(0), Num(1), Num(2), Bool(0), Txt}
StatColumns == {ColA, ColB}

StatInit ==
  \E n \in 0..MaxCells :
    \E cells \in [1..n -> StatValues] :
      /\ heap = [r \in RowIds |-> IF r <= n THEN InitRow(cells[r], Txt) ELSE EmptyRow]
      /\ frames = [src |-> DataFrame(heap, [i \in 1..n |-> i]),
                   der |-> DataFrame(heap, <<>>)]
      /\ link = "none"
      /\ last = NoCall
      /\ before = [heap |-> heap, frames |-> frames]
      /\ steps = 0

StatCall(op, column) == [Call(op, "src") EXCEPT !.column = column]

DoMin == Query(StatCall("min", ColA), min(heap, frames.src.data, ColA))
DoMax == Query(StatCall("max", ColA), max(heap, frames.src.data, ColA))
DoQuartiles == Query(StatCall("quartiles", ColA), quartiles(heap, frames.src.data, ColA))
DoMedian == Query(StatCall("median", ColA), median(heap, frames.src.data, ColA))
DoMean == Query(StatCall("mean", ColA), mean(heap, frames.src.data, ColA))
DoStd == Query(StatCall("std", ColA), std(heap, frames.src.data, ColA))
DoCount == Query(StatCall("count", ColA), count(heap, frames.src.data, ColA))
DoVar == Query(Call("var", "src"), var(heap, frames.src.data))

DoMode ==
  \E col \in StatColumns :
    LET R == mode(heap, frames.src, col)
    IN  IF R.err = "none"
        THEN Query(StatCall("mode", col), R.value)
        ELSE Throws(StatCall("mode", col), R.err)

StatNext ==
  \/ DoMin
  \/ DoMax
  \/ DoQuartiles
  \/ DoMedian
  \/ DoMean
  \/ DoStd
  \/ DoCount
  \/ DoVar
  \/ DoMode

StatSpec == StatInit /\ [][StatNext]_vars

\* ---------------------------------------------------------- grouping calls
\* The cells of column a of a frame that is grouped or counted.
GroupValues == {Undef, Num(1), Digits(1), Txt}

GroupInit ==
  \E n \in 0..MaxCells :
    \E cells \in [1..n -> GroupValues] :
      /\ heap = [r \in RowIds |-> IF r <= n THEN InitRow(cells[r], Txt) ELSE EmptyRow]
      /\ frames = [src |-> DataFrame(heap, [i \in 1..n |-> i]),
                   der |-> DataFrame(heap, <<>>)]
      /\ link = "none"
      /\ last = NoCall
      /\ before = [heap |-> heap, frames |-> frames]
      /\ steps = 0

DoGroupBy == Query(StatCall("groupBy", ColA), groupBy(heap, frames.src.data, ColA))
DoUnique == Query(StatCall("unique", ColA), unique(heap, frames.src.data, ColA))

DoValueCounts ==
  LET R == valueCounts(heap, frames.src.data, ColA)
  IN  IF R.err = "none"
      THEN Query(StatCall("valueCounts", ColA), R.value)
      ELSE Throws(StatCall("valueCounts", ColA), R.err)

GroupNext ==
  \/ DoGroupBy
  \/ DoUnique
  \/ DoValueCounts

GroupSpec == GroupInit /\ [][GroupNext]_vars

\* ------------------------------------------------------------------ claims
Src == frames.src
Der == frames.der
SrcBefore == before.frames.src
DerBefore == before.frames.der
Ok == last.err = "none"

InPlaceOps == {"updateElement", "deleteObservations", "renameColumn"}

\* The shape invariant of one frame.
WellShaped(h, f) ==
  /\ Len(index(f.data)) = shape(h, f.data)[1]
  /\ \A c \in Range(columns(h, f.data)) : Len(array(h, f.data, c)) = shape(h, f.data)[1]

C2_DerivedFramesIsolated ==
  (link \in {"head", "tail", "filter", "dropna", "dedup"}
     /\ last.op = "updateElement" /\ Ok) =>
    /\ last.recv = "der" => View(heap, Src) = View(before.heap, SrcBefore)
    /\ last.recv = "src" => View(heap, Der) = View(before.heap, DerBefore)

\* C3: fillna, transform, insert, update and delete leave the receiver
\* unchanged: same columns, same shape, same value in every cell.
C3_ReceiverUnchanged ==
  (last.op \in {"fillna", "transform", "insert", "update", "delete"} /\ Ok) =>
    View(heap, Src) = View(before.heap, SrcBefore)

\* C4: copy() returns a frame equal in content to the source: same columns in
\* the same order, same shape, same value in every cell.
C4_CopyEqualsSource ==
  last.op = "copy" => View(heap, Der) = View(before.heap, SrcBefore)

\* C5: after c = copy(), in-place mutations of c (updateElement,
\* deleteObservations, renameColumn) leave the source's columns, shape and
\* cells unchanged, and in-place mutations of the source leave c unchanged.
C5_CopyIsolated ==
  (link = "copy" /\ last.op \in InPlaceOps) =>
    /\ last.recv = "der" => View(heap, Src) = View(before.heap, SrcBefore)
    /\ last.recv = "src" => View(heap, Der) = View(before.heap, DerBefore)

\* C5 witness: the copy was written to by updateElement, and the write shows
\* in the copy.
C5_Witness ==
  /\ link = "copy" /\ last.op = "updateElement" /\ last.recv = "der" /\ Ok
  /\ View(heap, Der) # View(before.heap, DerBefore)
  /\ Len(Src.data) = MaxRows

\* The frame the latest row-dropping call read, and the frame it produced.
RowSource == IF last.op = "deleteObservations" THEN before.frames[last.recv] ELSE SrcBefore
RowResult == IF last.op = "deleteObservations" THEN frames[last.recv] ELSE Der
RowDroppers == {"filter", "tail", "dropna", "deleteObservations"}

\* The labels the retained rows had in the source.
RetainedLabels(source, result) ==
  [i \in 1..Len(result.data) |->
     index(source.data)[indexOf(source.data, result.data[i]) + 1]]

C8_TailLastRows ==
  (last.op = "tail" /\ last.n >= 0) =>
    LET len == Len(SrcBefore.data)
        k == Min(last.n, len)
    IN  /\ shape(heap, Der.data)[1] = k
        /\ Rows(heap, Der) = SubSeq(Rows(before.heap, SrcBefore), len - k + 1, len)

\* C9: head(n) and tail(n) with a negative n fail with InvalidArgument and
\* return no DataFrame.
C9_NegativeRejected ==
  (last.op \in {"head", "tail"} /\ last.n < 0) =>
    /\ last.err = "InvalidArgument"
    /\ Der = DerBefore

\* A row of the frame that has an absent cell in one of the frame's columns.
HasAbsentCell(h, f, i) ==
  \E c \in Range(columns(h, f.data)) : array(h, f.data, c)[i] = Undef

\* The positions of a sequence of booleans that hold TRUE, in order.
RECURSIVE Positions(_, _)
Positions(keep, i) ==
  IF i > Len(keep) THEN <<>>
  ELSE (IF keep[i] THEN <<i>> ELSE <<>>) \o Positions(keep, i + 1)

\* C10: dropna() returns exactly the rows of the source that have no absent
\* cell in any column, in their original order: no row of the result has an
\* absent cell, and no row of the source without one is dropped.
C10_DropnaExact ==
  last.op = "dropna" =>
    LET keep == Positions([i \in 1..Len(SrcBefore.data) |->
                             ~HasAbsentCell(before.heap, SrcBefore, i)], 1)
    IN  /\ Der.data = [j \in 1..Len(keep) |-> SrcBefore.data[keep[j]]]
        /\ \A i \in 1..Len(Der.data) : ~HasAbsentCell(heap, Der, i)

\* The cells of one column after fillna(value): absent cells hold value, the
\* others what they held.
Filled(cells, value) == [i \in 1..Len(cells) |-> IF cells[i] = Undef THEN value ELSE cells[i]]

\* C11: fillna(v) returns a frame with the columns and shape of the source in
\* which every absent cell equals v and every present cell keeps its value;
\* fillna(v, c) does so for column c only and leaves the other columns' cells
\* as they were.
C11_FillnaFills ==
  last.op = "fillna" =>
    LET cols == columns(before.heap, SrcBefore.data)
    IN  /\ columns(heap, Der.data) = cols
        /\ shape(heap, Der.data) = shape(before.heap, SrcBefore.data)
        /\ \A i \in 1..Len(cols) :
             LET old == array(before.heap, SrcBefore.data, cols[i])
             IN  array(heap, Der.data, cols[i]) =
                   IF last.column \in {Undef, cols[i]} THEN Filled(old, last.value) ELSE old

\* The cells of the transformed column before and after the last call.
ColumnBefore == array(before.heap, SrcBefore.data, last.column)
ColumnAfter == array(heap, Der.data, last.column)

\* C12: transform(column, fn) never applies fn to an absent cell: every cell
\* of the column that is absent in the source is absent in the result.
C12_AbsentPassedThrough ==
  (last.op = "transform" /\ Ok) =>
    \A i \in 1..Len(ColumnBefore) : ColumnBefore[i] = Undef => ColumnAfter[i] = Undef

\* C12 witness: transform changed a present cell of a column that also has an
\* absent cell.
C12_Witness ==
  /\ last.op = "transform" /\ Ok /\ last.arg = "toText"
  /\ \E i \in 1..Len(ColumnBefore) : ColumnBefore[i] = Undef
  /\ \E i \in 1..Len(ColumnBefore) : ColumnBefore[i] = Num(1) /\ ColumnAfter[i] = Txt

\* C13: transform(column, fn) replaces every present cell v of the column by
\* fn(v), the number 0 and the boolean false included.
C13_PresentTransformed ==
  (last.op = "transform" /\ Ok) =>
    \A i \in 1..Len(ColumnBefore) :
      ColumnBefore[i] # Undef => ColumnAfter[i] = fn(last.arg, ColumnBefore[i])

\* ------------------------------------------------- claims on statistics
\* The cells of column a of the receiver, and whether all of them are numbers.
CellsA == array(heap, Src.data, ColA)
AllNumeric(cells) == \A i \in 1..Len(cells) : typeof(cells[i]) = "number"
Occurrences(cells, v) == Cardinality({i \in 1..Len(cells) : cells[i] = v})
MostFrequent(cells) ==
  {v \in Range(cells) : \A w \in Range(cells) : Occurrences(cells, w) <= Occurrences(cells, v)}
Largest(vs) == CHOOSE v \in vs : \A w \in vs : w[2] <= v[2]

\* C14: mode(column) on a column of numbers returns absent when every
\* distinct value occurs the same number of times, and otherwise the most
\* frequent value, the largest one when several are tied.
C14_ModeOfNumbers ==
  (last.op = "mode" /\ last.column = ColA /\ AllNumeric(CellsA) /\ Len(CellsA) > 0) =>
    /\ Ok
    /\ last.result = IF MostFrequent(CellsA) = Range(CellsA) THEN Undef
                     ELSE Largest(MostFrequent(CellsA))

\* The sum of squared deviations of the numbers of column a from their mean.
SquaresA ==
  LET vals == values(heap, Src.data, ColA)
      m == Divide(Sum(vals, 1), <<Len(vals), 1>>)
  IN  SumSquares(vals, m, 1)

\* C15: for a column of n >= 2 cells, all numbers, the variance reported by
\* var() times n - 1 and the square of std(column) times n are both the sum of
\* squared deviations from mean(column).
C15_VarStdAsymmetry ==
  (last.op = "var" /\ AllNumeric(CellsA) /\ Len(CellsA) >= 2) =>
    /\ Len(last.result) = 1 /\ last.result[1].column = ColA
    /\ Times(last.result[1].variance, <<Len(CellsA) - 1, 1>>) = SquaresA
    /\ Times(Squared(std(heap, Src.data, ColA)), <<Len(CellsA), 1>>) = SquaresA

\* C15 witness: var() of a column of three numbers that are not all equal.
C15_Witness ==
  /\ last.op = "var" /\ AllNumeric(CellsA) /\ Len(CellsA) = 3
  /\ SquaresA # <<0, 1>>
  /\ last.result[1].variance # Squared(std(heap, Src.data, ColA))

\* The rows of the receiver whose cell in column a is a number.
NumericRows ==
  FilterIdx(Src.data, [i \in 1..Len(Src.data) |-> typeof(CellsA[i]) = "number"], 1)

\* C16: mean, std, min, max, quartiles and the variance of var() of a column
\* equal the same statistic of the column restricted to its numeric cells.
C16_NumericCellsOnly ==
  /\ last.op = "mean" => last.result = mean(heap, NumericRows, ColA)
  /\ last.op = "std" => last.result = std(heap, NumericRows, ColA)
  /\ last.op = "min" => last.result = min(heap, NumericRows, ColA)
  /\ last.op = "max" => last.result = max(heap, NumericRows, ColA)
  /\ last.op = "quartiles" => last.result = quartiles(heap, NumericRows, ColA)
  /\ last.op = "var" => last.result = var(heap, NumericRows)

\* C17: count(column) is the number of cells of the column that are not
\* absent, the number 0 and the boolean false included.
C17_CountPresent ==
  last.op = "count" => last.result = Cardinality({i \in 1..Len(CellsA) : CellsA[i] # Undef})

\* The orders the rows of the receiver can be put in.
RowOrders ==
  LET n == Len(Src.data)
  IN  {[i \in 1..n |-> Src.data[p[i]]] :
         p \in {q \in [1..n -> 1..n] : \A i, j \in 1..n : q[i] = q[j] => i = j}}

\* C18: quartiles(column) is the same for every order of the rows, and
\* median(column) is its 50% value.
C18_QuartilesOrderFree ==
  /\ last.op = "quartiles" =>
       \A data \in RowOrders : quartiles(heap, data, ColA) = last.result
  /\ last.op = "median" =>
       \A data \in RowOrders : quartiles(heap, data, ColA).q50 = last.result

\* C18 witness: quartiles of a column whose numbers are not in ascending order.
C18_Witness ==
  /\ last.op = "quartiles" /\ AllNumeric(CellsA) /\ Len(CellsA) = 3
  /\ CellsA[1][2] > CellsA[2][2] /\ CellsA[2][2] < CellsA[3][2]
  /\ last.result.q50 = <<CellsA[1][2], 1>>

\* The dtype the frame holds for a column.
DType(f, col) == Get(f.colDataTypes, col)

\* C19 (as stated): at construction dTypes maps a column to the kind held by
\* the most non-absent cells; of two kinds tied for the greatest count, the
\* one whose first cell comes earlier in row order is the dtype.
C19_TieFirstSeen ==
  (link = "none" /\ Len(Src.data) > 0 /\ PresentKinds(CellsA) # {}) =>
    DType(Src, ColA) = FirstSeen(CellsA)

\* C19 (amended): at construction dTypes maps a column to the kind held by
\* the most non-absent cells; of two kinds tied for the greatest count, the
\* one that is the first to have that many cells in row order is the dtype.
C19_TieFirstToReach ==
  (link = "none" /\ Len(Src.data) > 0 /\ PresentKinds(CellsA) # {}) =>
    /\ DType(Src, ColA) \in TiedKinds(CellsA)
    /\ DType(Src, ColA) = FirstToReach(CellsA)

\* C19 witness: a column of a number, two texts and a number; number is seen
\* first, string is the first kind with two cells.
C19_Witness ==
  /\ Len(CellsA) = 4
  /\ [i \in 1..4 |-> typeof(CellsA[i])] = <<"number", "string", "string", "number">>
  /\ DType(Src, ColA) = "string"

\* C20: array(name) with a name that is not in columns, and select(names)
\* with such a name among names, fail with ColumnNotFound and return nothing.
C20_UnknownColumnRejected ==
  LET cols == Range(columns(before.heap, SrcBefore.data))
  IN  /\ (last.op = "array" /\ last.column \notin cols) => last.err = "ColumnNotFound"
      /\ (last.op = "select" /\ ~(Range(last.dataArray) \subseteq cols)) =>
           (last.err = "ColumnNotFound" /\ Der = DerBefore)

\* C21: insert(name, values) and update(name, values) with values of a length
\* other than the number of rows fail with LengthMismatch and add or overwrite
\* no cell.
C21_LengthMismatchRejected ==
  (last.op \in {"insert", "update"} /\ Len(last.dataArray) # Len(SrcBefore.data)) =>
    /\ last.err = "LengthMismatch"
    /\ View(heap, Src) = View(before.heap, SrcBefore)
    /\ Der = DerBefore

\* The receiver of the last call, before and after it.
Recv == frames[last.recv]
RecvBefore == before.frames[last.recv]

\* C22: renameColumn(old, new) fails with ColumnNotFound when old is not a
\* column and with DuplicateColumn when new is one, leaving columns and cells
\* unchanged; when it succeeds the column keeps its position and values and the
\* other columns are unchanged.
C22_RenameChecked ==
  last.op = "renameColumn" =>
    LET cols == columns(before.heap, RecvBefore.data)
    IN  IF last.column \notin Range(cols)
        THEN last.err = "ColumnNotFound" /\ View(heap, Recv) = View(before.heap, RecvBefore)
        ELSE IF last.name \in Range(cols)
        THEN last.err = "DuplicateColumn" /\ View(heap, Recv) = View(before.heap, RecvBefore)
        ELSE /\ Ok
             /\ columns(heap, Recv.data) =
                  [i \in 1..Len(cols) |-> IF cols[i] = last.column THEN last.name ELSE cols[i]]
             /\ View(heap, Recv).cells = View(before.heap, RecvBefore).cells

\* The values of a row of the source in the source's columns.
RowValues(h, f, i) ==
  [c \in 1..Len(columns(h, f.data)) |-> Get(h[f.data[i]], columns(h, f.data)[c])]

\* C23: dedup() keeps, in original order, exactly the first row of every set
\* of rows equal in all column values, also when the equal rows are distinct
\* records; hasDuplicates() is false on the result.
C23_DedupByValue ==
  last.op = "dedup" =>
    LET n == Len(SrcBefore.data)
        keep == Positions([i \in 1..n |->
                             \A j \in 1..(i - 1) :
                               RowValues(before.heap, SrcBefore, j)
                                 # RowValues(before.heap, SrcBefore, i)], 1)
    IN  /\ Der.data = [j \in 1..Len(keep) |-> SrcBefore.data[keep[j]]]
        /\ ~hasDuplicates(heap, Der.data)

\* C24: groupBy(column) partitions the rows: every row of the source is in
\* exactly one group, two rows are in the same group if and only if their
\* values in the column are equal (a number and a text with the same digits
\* are different values), and inside a group the rows keep their order.
C24_GroupByPartitions ==
  last.op = "groupBy" =>
    LET groups == last.result
        GroupsOf(r) == {g \in 1..Len(groups) : r \in Range(groups[g].v.data)}
    IN  /\ \A r \in Range(Src.data) : Cardinality(GroupsOf(r)) = 1
        /\ \A g \in 1..Len(groups) : Range(groups[g].v.data) \subseteq Range(Src.data)
        /\ \A r1, r2 \in Range(Src.data) :
             GroupsOf(r1) = GroupsOf(r2) <=> Get(heap[r1], ColA) = Get(heap[r2], ColA)
        /\ \A g \in 1..Len(groups) : \A i, j \in 1..Len(groups[g].v.data) :
             i < j => indexOf(Src.data, groups[g].v.data[i]) < indexOf(Src.data, groups[g].v.data[j])

\* C25: valueCounts(column) has one entry per distinct non-absent value of the
\* column with its number of occurrences: its keys are unique(column) in
\* first-occurrence order and its counts sum to the number of non-absent cells.
C25_ValueCountsOfPresent ==
  last.op = "valueCounts" =>
    LET keys == unique(heap, Src.data, ColA)
    IN  /\ Ok
        /\ last.result = [i \in 1..Len(keys) |->
                            [k |-> keys[i], v |-> Occurrences(CellsA, keys[i])]]

\* C26: after an in-place mutation (updateElement, deleteObservations,
\* renameColumn) dTypes maps every current column to the majority kind of its
\* current non-absent cells.
C26_DTypesCurrent ==
  (last.op \in InPlaceOps /\ Ok) =>
    dTypes(Recv) = IF Len(Recv.data) = 0 THEN <<>> ELSE getDataTypes(heap, Recv.data)

\* C27: getWrongTypeRows(column) is a read-only query: after it returns the
\* frame has the same columns, shape and cells as before.
C27_WrongTypeRowsReadOnly ==
  last.op = "getWrongTypeRows" =>
    View(heap, Src) = View(before.heap, SrcBefore)

\* C28: deleteObservations(indices) removes exactly the rows whose label is in
\* indices and keeps the other rows in their order; an index that matches no
\* row is ignored without an error, and a call whose indices match no row
\* leaves the frame unchanged.
C28_DeleteObservationsExact ==
  last.op = "deleteObservations" =>
    LET labels == index(RecvBefore.data)
        keep == Positions([i \in 1..Len(labels) |-> labels[i] \notin last.indices], 1)
    IN  /\ Ok
        /\ Recv.data = [j \in 1..Len(keep) |-> RecvBefore.data[keep[j]]]
        /\ Rows(heap, Recv) = [j \in 1..Len(keep) |-> Rows(before.heap, RecvBefore)[keep[j]]]
        /\ (last.indices \cap Range(labels) = {}) =>
             View(heap, Recv) = View(before.heap, RecvBefore)

\* C28 witness: deleteObservations([0, 1]) on three rows leaves the third.
C28_Witness ==
  /\ last.op = "deleteObservations" /\ last.indices = {0, 1}
  /\ Len(RecvBefore.data) = 3
  /\ Recv.data = <<RecvBefore.data[3]>>

\* C29: updateElement(row, column, value) fails with ColumnNotFound when
\* column is not in columns and with RowNotFound when row is no label of the
\* frame; in both cases no cell changes and no row gains a key.
C29_UpdateElementChecked ==
  last.op = "updateElement" =>
    /\ last.column \notin Range(columns(before.heap, RecvBefore.data)) =>
         (last.err = "ColumnNotFound" /\ Rows(heap, Recv) = Rows(before.heap, RecvBefore))
    /\ last.n \notin Range(index(RecvBefore.data)) =>
         (last.err \in {"RowNotFound", "ColumnNotFound"}
            /\ Rows(heap, Recv) = Rows(before.heap, RecvBefore))

\* C30: insert(name, values) and update(name, values) leave the sequence the
\* caller passed as it was: after the call it has the same length and elements.
C30_ValuesNotConsumed ==
  (last.op \in {"insert", "update"} /\ Ok) => last.result = last.dataArray

====
